---- MODULE Spec2Model ----
(***************************************************************************)
(* A model of app.py, the Streamlit marketing-campaign dashboard.          *)
(*                                                                         *)
(* The spreadsheet is an input fixed at start-up.  One script run is one   *)
(* call of main(): load_data (memoised by st.cache_data), calculate_kpis,  *)
(* then the four tabs in source order.  Every element a run hands to the   *)
(* front end stays displayed until a later run replaces it, so the output  *)
(* variables keep the value of the last run that produced them.            *)
(*                                                                         *)
(* Numbers.  Column sums are exact integers.  A float quotient is modelled *)
(* as the exact rational in lowest terms, with den = 0 for the IEEE        *)
(* specials: 1/0 is inf and 0/0 is nan.  Binary rounding error of the      *)
(* float quotient is abstracted away.                                      *)
(***************************************************************************)
EXTENDS Integers, Sequences, FiniteSets, TLC

\* Bounds of the model.
MaxRows == 2
MaxRuns == 2

-----------------------------------------------------------------------------
(* The spreadsheet                                                         *)

Measures == {"Impressions", "Clicks", "Conversions", "Total_Spend", "Revenue_Generated"}

Columns ==
    {"Campaign_Name", "Marketing_Channel", "Start_Date", "End_Date",
     "Age_Group", "Gender", "Location"} \cup Measures

Date(y, m, d) == [y |-> y, m |-> m, d |-> d]

EndDate == Date(2024, 3, 1)

\* The (channel, start date) cells of the rows: both channels, and start
\* dates across a year change, on a leap day, on two days of one month and
\* on one same day.
Placements ==
    {<<"Social", Date(2023, 12, 31)>>, <<"Email", Date(2024, 2, 1)>>,
     <<"Social", Date(2024, 2, 29)>>, <<"Email", Date(2024, 2, 29)>>}

\* Measure profiles of a row: an ordinary row, a row without clicks, a row
\* without impressions, clicks or spend, and a second ordinary row whose
\* ratios differ from the first's.
MeasureProfiles ==
    {[Impressions |-> 4, Clicks |-> 2, Conversions |-> 1, Total_Spend |-> 2, Revenue_Generated |-> 6],
     [Impressions |-> 2, Clicks |-> 0, Conversions |-> 0, Total_Spend |-> 1, Revenue_Generated |-> 0],
     [Impressions |-> 0, Clicks |-> 0, Conversions |-> 0, Total_Spend |-> 0, Revenue_Generated |-> 3],
     [Impressions |-> 8, Clicks |-> 1, Conversions |-> 1, Total_Spend |-> 3, Revenue_Generated |-> 1]}

\* The remaining categorical cells are tied to the three chosen ones, which
\* keeps the input space small while every column still varies.
CampaignOf(date) == IF date.m = 12 THEN "Winter Sale" ELSE "Leap Promo"

AgeGroupOf(p) ==
    IF p.Clicks > 0 THEN "25-34" ELSE IF p.Impressions > 0 THEN "35-44" ELSE "18-24"

GenderOf(ch) == IF ch = "Social" THEN "Male" ELSE "Female"

LocationOf(date) == IF date.d = 1 THEN "Alexandria" ELSE "Cairo"

SheetRow(ch, date, p) ==
    [Campaign_Name |-> CampaignOf(date), Marketing_Channel |-> ch,
     Start_Date |-> date, End_Date |-> EndDate,
     Age_Group |-> AgeGroupOf(p), Gender |-> GenderOf(ch), Location |-> LocationOf(date),
     Impressions |-> p.Impressions, Clicks |-> p.Clicks, Conversions |-> p.Conversions,
     Total_Spend |-> p.Total_Spend, Revenue_Generated |-> p.Revenue_Generated]

RowDomain == {SheetRow(pl[1], pl[2], p) : pl \in Placements, p \in MeasureProfiles}

SeqsUpTo(S, n) == UNION {[1..k -> S] : k \in 0..n}

\* A sheet with the columns `cols` only.
Sheet(cols, rows) ==
    [columns |-> cols, rows |-> [i \in 1..Len(rows) |-> [c \in cols |-> rows[i][c]]]]

\* Well-formed sheets of up to MaxRows rows, and sheets that lack one column
\* (those with at most one row: a missing column fails whatever the rows hold).
Sheets ==
    {Sheet(Columns, rows) : rows \in SeqsUpTo(RowDomain, MaxRows)}
    \cup {Sheet(Columns \ {c}, rows) : c \in Columns, rows \in SeqsUpTo(RowDomain, 1)}

-----------------------------------------------------------------------------
(* Library arithmetic                                                      *)

\* Days since 1970-01-01 of a civil date: the value of a Timestamp.
DaysFromCivil(y, m, d) ==
    LET yy  == IF m <= 2 THEN y - 1 ELSE y
        era == yy \div 400
        yoe == yy - era * 400
        mp  == (m + 9) % 12
        doy == ((153 * mp + 2) \div 5) + d - 1
        doe == yoe * 365 + (yoe \div 4) - (yoe \div 100) + doy
    IN  era * 146097 + doe - 719468

\* The civil date of a Timestamp.
CivilFromDays(z) ==
    LET z2  == z + 719468
        era == z2 \div 146097
        doe == z2 - era * 146097
        yoe == (doe - (doe \div 1460) + (doe \div 36524) - (doe \div 146096)) \div 365
        doy == doe - (365 * yoe + (yoe \div 4) - (yoe \div 100))
        mp  == (5 * doy + 2) \div 153
        dd  == doy - ((153 * mp + 2) \div 5) + 1
        mm  == IF mp < 10 THEN mp + 3 ELSE mp - 9
        yy  == yoe + era * 400 + (IF mm <= 2 THEN 1 ELSE 0)
    IN  [y |-> yy, m |-> mm, d |-> dd]

\* pd.to_datetime on a date cell.
ToDatetime(cell) == DaysFromCivil(cell.y, cell.m, cell.d)

\* Series.dt.month - 1: the month of the year, whatever the year.
MonthOfYear(ts) == CivilFromDays(ts).m - 1

\* Series.dt.to_period('M'): the month ordinal (months since 1970-01).
ToPeriodM(ts) == LET c == CivilFromDays(ts) IN (c.y - 1970) * 12 + (c.m - 1)

\* str(Period): the text "YYYY-MM", kept as its two numeric fields.
PeriodToStr(p) == [year |-> 1970 + (p \div 12), month |-> (p % 12) + 1]

\* datetime.strptime(x, '%Y-%m'): the first day of that month.
Strptime(s) == DaysFromCivil(s.year, s.month, 1)

RECURSIVE GCD(_, _)
GCD(a, b) == IF b = 0 THEN a ELSE GCD(b, a % b)

NaN == [num |-> 0, den |-> 0]
Inf == [num |-> 1, den |-> 0]

\* numpy true division of non-negative numbers: never raises.
TrueDiv(a, b) ==
    IF b = 0 THEN (IF a = 0 THEN NaN ELSE Inf)
    ELSE LET g == GCD(a, b) IN [num |-> a \div g, den |-> b \div g]

\* A float times a non-negative integer.
Times(r, k) == TrueDiv(r.num * k, r.den)

RECURSIVE Pow10(_)
Pow10(n) == IF n = 0 THEN 1 ELSE 10 * Pow10(n - 1)

RoundHalfEven(n, d) ==
    LET q == n \div d
        r == n % d
    IN  IF 2 * r < d THEN q
        ELSE IF 2 * r > d THEN q + 1
        ELSE IF q % 2 = 0 THEN q ELSE q + 1

\* f"{prefix}{x:,.<decimals>f}{suffix}": the text, kept as its parts.  scaled
\* is the printed number times 10^decimals; inf and nan print as words.
FormatF(r, decimals, prefix, suffix) ==
    [prefix |-> prefix, suffix |-> suffix, decimals |-> decimals,
     special |-> IF r.den > 0 THEN "" ELSE IF r.num = 0 THEN "nan" ELSE "inf",
     scaled |-> IF r.den > 0 THEN RoundHalfEven(r.num * Pow10(decimals), r.den) ELSE 0]

-----------------------------------------------------------------------------
(* Data frames: [columns, rows], each row a record over the columns        *)

NoFrame == [columns |-> {}, rows |-> <<>>]

\* The sum of column c over the rows with index in I.
RECURSIVE SumOver(_, _, _)
SumOver(rows, c, I) ==
    IF I = {} THEN 0
    ELSE LET i == CHOOSE j \in I : TRUE IN rows[i][c] + SumOver(rows, c, I \ {i})

RECURSIVE SumTo(_, _, _)
SumTo(rows, c, n) == IF n = 0 THEN 0 ELSE SumTo(rows, c, n - 1) + rows[n][c]

\* A sum that counts equal values once (a sum over the set of values).
SeriesSumDistinct(d, c) ==
    LET vals == {d.rows[i][c] : i \in 1..Len(d.rows)}
        pick == [v \in vals |-> CHOOSE i \in 1..Len(d.rows) : d.rows[i][c] = v]
    IN  SumOver(d.rows, c, {pick[v] : v \in vals})

\* Series.sum(): every row of the column, once.
SeriesSum(d, c) == SumTo(d.rows, c, Len(d.rows))

\* A sheet without data rows is read with object columns, whose sum is the
\* Python int 0; a column with data is int64/float64 and sums to a numpy scalar.
NumpyScalars(d) == Len(d.rows) > 0

\* df[name] = vals (a new column, or an existing one replaced).
AddColumn(d, name, vals) ==
    [columns |-> d.columns \cup {name},
     rows |-> [i \in 1..Len(d.rows) |->
                 [c \in d.columns \cup {name} |-> IF c = name THEN vals[i] ELSE d.rows[i][c]]]]

\* The lexicographic order of the text cells of the sheet.
LexOrder ==
    <<"18-24", "25-34", "35-44", "Alexandria", "Cairo", "Email", "Female",
      "Leap Promo", "Male", "Social", "Winter Sale">>

StrRank == [s \in {LexOrder[i] : i \in 1..Len(LexOrder)} |->
              CHOOSE i \in 1..Len(LexOrder) : LexOrder[i] = s]

\* The order of Period values is that of their ordinals.
PeriodRank(d) == [p \in {d.rows[i].Month : i \in 1..Len(d.rows)} |-> p]

RECURSIVE SortedKeys(_, _)
SortedKeys(S, rank) ==
    IF S = {} THEN <<>>
    ELSE LET least == CHOOSE x \in S : \A y \in S : rank[x] <= rank[y]
         IN  <<least>> \o SortedKeys(S \ {least}, rank)

RECURSIVE FirstSeen(_, _, _)
FirstSeen(rows, key, n) ==
    IF n = 0 THEN <<>>
    ELSE LET before == FirstSeen(rows, key, n - 1)
         IN  IF \E j \in 1..Len(before) : before[j] = rows[n][key]
             THEN before ELSE Append(before, rows[n][key])

\* agg 'first' in place of 'sum': the value of the group's first row.
GroupFirst(rows, key, k, c, n) ==
    rows[CHOOSE i \in 1..n : rows[i][key] = k /\ \A j \in 1..(i - 1) : rows[j][key] # k][c]

RECURSIVE GroupSum(_, _, _, _, _)
GroupSum(rows, key, k, c, n) ==
    IF n = 0 THEN 0
    ELSE GroupSum(rows, key, k, c, n - 1) + (IF rows[n][key] = k THEN rows[n][c] ELSE 0)

\* groupby(..., sort=False): the groups in order of first appearance.
GroupOrderFirstSeen(d, key, rank) == FirstSeen(d.rows, key, Len(d.rows))

\* Pandas's default is sort=True: the groups come in ascending key order.
GroupOrder(d, key, rank) == SortedKeys({d.rows[i][key] : i \in 1..Len(d.rows)}, rank)

\* df.groupby(key).agg({c: 'sum' for c in cols}).reset_index()
GroupBy(d, key, cols, rank) ==
    LET keys == GroupOrder(d, key, rank)
    IN  [columns |-> {key} \cup cols,
         rows |-> [g \in 1..Len(keys) |->
                     [c \in {key} \cup cols |->
                        IF c = key THEN keys[g]
                        ELSE GroupSum(d.rows, key, keys[g], c, Len(d.rows))]]]

\* Element-wise Series / Series, then * k.
SeriesRatio(d, a, b, k) == [i \in 1..Len(d.rows) |-> Times(TrueDiv(d.rows[i][a], d.rows[i][b]), k)]

-----------------------------------------------------------------------------
(* app.py                                                                  *)

\* load_data: read_excel, then the two date columns through pd.to_datetime.
load_data(sheet) ==
    IF ~({"Start_Date", "End_Date"} \subseteq sheet.columns)
    THEN [raised |-> "KeyError", df |-> NoFrame]
    ELSE [raised |-> "",
          df |-> [columns |-> sheet.columns,
                  rows |-> [i \in 1..Len(sheet.rows) |->
                              [c \in sheet.columns |->
                                 IF c \in {"Start_Date", "End_Date"}
                                 THEN ToDatetime(sheet.rows[i][c])
                                 ELSE sheet.rows[i][c]]]]]

\* load_data without the decorator: every call reads the file.
uncached_load_data(store, sheet) ==
    LET r == load_data(sheet)
    IN  [raised |-> r.raised, df |-> r.df,
         store |-> IF r.raised = "" THEN <<r.df>> ELSE <<>>, reads |-> 1]

\* @st.cache_data: a stored value is returned without calling the function;
\* a call that raises stores nothing.  reads counts the calls of read_excel.
cached_load_data(store, sheet) ==
    IF store # <<>>
    THEN [raised |-> "", df |-> store[1], store |-> store, reads |-> 0]
    ELSE LET r == load_data(sheet)
         IN  [raised |-> r.raised, df |-> r.df,
              store |-> IF r.raised = "" THEN <<r.df>> ELSE <<>>, reads |-> 1]

\* The sum over the first n rows of a / b, as a float.
RECURSIVE RatioSum(_, _, _, _)
RatioSum(rows, a, b, n) ==
    IF n = 0 THEN TrueDiv(0, 1)
    ELSE LET s == RatioSum(rows, a, b, n - 1)
             r == TrueDiv(rows[n][a], rows[n][b])
         IN  IF s.den = 0 \/ r.den = 0 THEN NaN
             ELSE TrueDiv(s.num * r.den + r.num * s.den, s.den * r.den)

\* The mean over the rows of k * a / b.
RowMean(d, a, b, k) ==
    LET s == RatioSum(d.rows, a, b, Len(d.rows))
    IN  IF s.den = 0 THEN NaN ELSE TrueDiv(k * s.num, s.den * Len(d.rows))

\* The five ratios as averages of the rows' own ratios.
DeriveRatiosPerRow(d, total_impressions, total_clicks, total_conversions, total_spend, total_revenue) ==
    [ctr |-> RowMean(d, "Clicks", "Impressions", 100),
     conversion_rate |-> RowMean(d, "Conversions", "Clicks", 100),
     cpc |-> RowMean(d, "Total_Spend", "Clicks", 1),
     cpa |-> RowMean(d, "Total_Spend", "Conversions", 1),
     roas |-> RowMean(d, "Revenue_Generated", "Total_Spend", 1)]

\* Lines 29-33: the five ratios, from the totals alone (the rows of d are
\* not read again).
DeriveRatios(d, total_impressions, total_clicks, total_conversions, total_spend, total_revenue) ==
    [ctr |-> Times(TrueDiv(total_clicks, total_impressions), 100),
     conversion_rate |-> Times(TrueDiv(total_conversions, total_clicks), 100),
     cpc |-> TrueDiv(total_spend, total_clicks),
     cpa |-> TrueDiv(total_spend, total_conversions),
     roas |-> TrueDiv(total_revenue, total_spend)]

Whole(n) == TrueDiv(n, 1)

\* Python's int / int raises on a zero divisor; numpy's scalars do not.
DivisionRaises(d, divisor) == divisor = 0 /\ ~NumpyScalars(d)

calculate_kpis(d) ==
    IF ~(Measures \subseteq d.columns) THEN [raised |-> "KeyError", kpis |-> <<>>]
    ELSE
    LET total_impressions == SeriesSum(d, "Impressions")
        total_clicks      == SeriesSum(d, "Clicks")
        total_conversions == SeriesSum(d, "Conversions")
        total_spend       == SeriesSum(d, "Total_Spend")
        total_revenue     == SeriesSum(d, "Revenue_Generated")
        r == DeriveRatios(d, total_impressions, total_clicks, total_conversions,
                          total_spend, total_revenue)
    IN  IF \E z \in {total_impressions, total_clicks, total_conversions, total_spend} :
               DivisionRaises(d, z)
        THEN [raised |-> "ZeroDivisionError", kpis |-> <<>>]
        ELSE [raised |-> "",
              kpis |-> <<
                [metric |-> "Total Impressions", value |-> FormatF(Whole(total_impressions), 0, "", "")],
                [metric |-> "Total Clicks", value |-> FormatF(Whole(total_clicks), 0, "", "")],
                [metric |-> "Total Conversions", value |-> FormatF(Whole(total_conversions), 0, "", "")],
                [metric |-> "Total Spend", value |-> FormatF(Whole(total_spend), 2, "$", "")],
                [metric |-> "Total Revenue", value |-> FormatF(Whole(total_revenue), 2, "$", "")],
                [metric |-> "CTR", value |-> FormatF(r.ctr, 2, "", "%")],
                [metric |-> "Conversion Rate", value |-> FormatF(r.conversion_rate, 2, "", "%")],
                [metric |-> "CPC", value |-> FormatF(r.cpc, 2, "$", "")],
                [metric |-> "CPA", value |-> FormatF(r.cpa, 2, "$", "")],
                [metric |-> "ROAS", value |-> FormatF(r.roas, 2, "", "x")] >>]

\* campaign_metrics = df without .copy(): the new column lands in df too.
CampaignMetricsAliased(d) ==
    LET t == AddColumn(d, "Conversion_Rate", SeriesRatio(d, "Conversions", "Clicks", 100))
    IN  [df |-> t, campaign_metrics |-> t]

\* Lines 92-93: the campaign table is a copy of df with one more column, a
\* conversion rate per row.  No grouping by campaign name takes place.
CampaignMetrics(d) ==
    [df |-> d,
     campaign_metrics |-> AddColumn(d, "Conversion_Rate", SeriesRatio(d, "Conversions", "Clicks", 100))]

\* The channel ratios with ROAS upside down (spend / revenue).
ChannelKpisInverted(cm) ==
    AddColumn(
        AddColumn(
            AddColumn(cm, "CTR", SeriesRatio(cm, "Clicks", "Impressions", 100)),
            "Conversion_Rate", SeriesRatio(cm, "Conversions", "Clicks", 100)),
        "ROAS", SeriesRatio(cm, "Total_Spend", "Revenue_Generated", 1))

\* Lines 113-124: the channel sums and the three ratios of each group.
ChannelKpis(cm) ==
    AddColumn(
        AddColumn(
            AddColumn(cm, "CTR", SeriesRatio(cm, "Clicks", "Impressions", 100)),
            "Conversion_Rate", SeriesRatio(cm, "Conversions", "Clicks", 100)),
        "ROAS", SeriesRatio(cm, "Revenue_Generated", "Total_Spend", 1))

ChannelMetrics(d) == ChannelKpis(GroupBy(d, "Marketing_Channel", Measures, StrRank))

\* Lines 208-219: the month table.
TimeMetrics(d) ==
    LET df_time == AddColumn(d, "Month", [i \in 1..Len(d.rows) |-> ToPeriodM(d.rows[i].Start_Date)])
        grouped == GroupBy(df_time, "Month",
                           {"Impressions", "Clicks", "Conversions", "Revenue_Generated"},
                           PeriodRank(df_time))
    IN  AddColumn(grouped, "Month",
                  [g \in 1..Len(grouped.rows) |-> Strptime(PeriodToStr(grouped.rows[g].Month))])

-----------------------------------------------------------------------------
(* The process: the script runs of one Streamlit server                    *)

VARIABLES
    file,               \* the spreadsheet on disk
    store,              \* st.cache_data's entry for load_data: <<>> or <<df>>
    reads,              \* calls of pd.read_excel so far
    runs,               \* calls of main so far
    pc,                 \* where the current run stands
    error,              \* the exception that ended the current run, or ""
    df,                 \* main's df
    rendered,           \* the results the current run has produced so far
    kpis,               \* the pairs of kpis.items() handed to st.metric
    campaign_metrics,
    channel_metrics,
    age_metrics,
    gender_metrics,
    location_metrics,
    time_metrics

outputs ==
    <<kpis, campaign_metrics, channel_metrics, age_metrics, gender_metrics,
      location_metrics, time_metrics>>

vars == <<file, store, reads, runs, pc, error, df, rendered, outputs>>

Init ==
    /\ file \in Sheets
    /\ store = <<>>
    /\ reads = 0
    /\ runs = 0
    /\ pc = "start"
    /\ error = ""
    /\ df = NoFrame
    /\ rendered = {}
    /\ kpis = <<>>
    /\ campaign_metrics = NoFrame
    /\ channel_metrics = NoFrame
    /\ age_metrics = NoFrame
    /\ gender_metrics = NoFrame
    /\ location_metrics = NoFrame
    /\ time_metrics = NoFrame

\* An exception ends the run where it is raised.
Fail(exc) ==
    /\ pc' = "failed"
    /\ error' = exc

\* Lines 48-50: a script run starts and calls load_data().
Main ==
    /\ pc \in {"start", "done", "failed"}
    /\ runs < MaxRuns
    /\ runs' = runs + 1
    /\ rendered' = {}
    /\ LET r == cached_load_data(store, file)
       IN  /\ store' = r.store
           /\ reads' = reads + r.reads
           /\ df' = r.df
           /\ IF r.raised = "" THEN pc' = "kpis" /\ error' = "" ELSE Fail(r.raised)
    /\ UNCHANGED <<file, outputs>>

\* Lines 57-63.
Kpis ==
    /\ pc = "kpis"
    /\ LET r == calculate_kpis(df)
       IN  IF r.raised = ""
           THEN /\ kpis' = r.kpis
                /\ rendered' = rendered \cup {"kpis"}
                /\ pc' = "campaign"
                /\ error' = ""
           ELSE /\ Fail(r.raised)
                /\ UNCHANGED <<kpis, rendered>>
    /\ UNCHANGED <<file, store, reads, runs, df, campaign_metrics, channel_metrics,
                   age_metrics, gender_metrics, location_metrics, time_metrics>>

\* Lines 77-106: px.bar of df by Campaign_Name, then the campaign table.
CampaignTab ==
    /\ pc = "campaign"
    /\ IF "Campaign_Name" \in df.columns
       THEN LET r == CampaignMetrics(df)
            IN  /\ df' = r.df
                /\ campaign_metrics' = r.campaign_metrics
                /\ rendered' = rendered \cup {"campaign"}
                /\ pc' = "channel"
                /\ error' = ""
       ELSE /\ Fail("ValueError")
            /\ UNCHANGED <<df, campaign_metrics, rendered>>
    /\ UNCHANGED <<file, store, reads, runs, kpis, channel_metrics,
                   age_metrics, gender_metrics, location_metrics, time_metrics>>

\* Lines 109-147.
ChannelTab ==
    /\ pc = "channel"
    /\ IF "Marketing_Channel" \in df.columns
       THEN /\ channel_metrics' = ChannelMetrics(df)
            /\ rendered' = rendered \cup {"channel"}
            /\ pc' = "age"
            /\ error' = ""
       ELSE /\ Fail("KeyError")
            /\ UNCHANGED <<channel_metrics, rendered>>
    /\ UNCHANGED <<file, store, reads, runs, df, kpis, campaign_metrics,
                   age_metrics, gender_metrics, location_metrics, time_metrics>>

\* Lines 156-169.
AgeGroups ==
    /\ pc = "age"
    /\ IF "Age_Group" \in df.columns
       THEN /\ age_metrics' = GroupBy(df, "Age_Group", {"Conversions", "Revenue_Generated"}, StrRank)
            /\ rendered' = rendered \cup {"age"}
            /\ pc' = "gender"
            /\ error' = ""
       ELSE /\ Fail("KeyError")
            /\ UNCHANGED <<age_metrics, rendered>>
    /\ UNCHANGED <<file, store, reads, runs, df, kpis, campaign_metrics, channel_metrics,
                   gender_metrics, location_metrics, time_metrics>>

\* Lines 171-184.
Genders ==
    /\ pc = "gender"
    /\ IF "Gender" \in df.columns
       THEN /\ gender_metrics' = GroupBy(df, "Gender", {"Conversions", "Revenue_Generated"}, StrRank)
            /\ rendered' = rendered \cup {"gender"}
            /\ pc' = "location"
            /\ error' = ""
       ELSE /\ Fail("KeyError")
            /\ UNCHANGED <<gender_metrics, rendered>>
    /\ UNCHANGED <<file, store, reads, runs, df, kpis, campaign_metrics, channel_metrics,
                   age_metrics, location_metrics, time_metrics>>

\* Lines 186-201.
Locations ==
    /\ pc = "location"
    /\ IF "Location" \in df.columns
       THEN /\ location_metrics' =
                  GroupBy(df, "Location", {"Conversions", "Revenue_Generated", "Total_Spend"}, StrRank)
            /\ rendered' = rendered \cup {"location"}
            /\ pc' = "time"
            /\ error' = ""
       ELSE /\ Fail("KeyError")
            /\ UNCHANGED <<location_metrics, rendered>>
    /\ UNCHANGED <<file, store, reads, runs, df, kpis, campaign_metrics, channel_metrics,
                   age_metrics, gender_metrics, time_metrics>>

\* Lines 204-239: the last step of a run.
TimeTab ==
    /\ pc = "time"
    /\ time_metrics' = TimeMetrics(df)
    /\ rendered' = rendered \cup {"time"}
    /\ pc' = "done"
    /\ error' = ""
    /\ UNCHANGED <<file, store, reads, runs, df, kpis, campaign_metrics, channel_metrics,
                   age_metrics, gender_metrics, location_metrics>>

Next ==
    \/ Main
    \/ Kpis
    \/ CampaignTab
    \/ ChannelTab
    \/ AgeGroups
    \/ Genders
    \/ Locations
    \/ TimeTab

Spec == Init /\ [][Next]_vars

-----------------------------------------------------------------------------
(* Reference quantities of the claims, taken from the sheet itself         *)

Rows(d) == 1..Len(d.rows)

\* The arithmetic sum of column c of the sheet.
Total(c) == SumOver(file.rows, c, Rows(file))

\* The arithmetic sum of column c over the sheet rows whose key cell is k.
TotalWhere(key, k, c) == SumOver(file.rows, c, {i \in Rows(file) : file.rows[i][key] = k})

Kpi(metric) == kpis[CHOOSE i \in 1..Len(kpis) : kpis[i].metric = metric].value

\* The text shows the number a with `decimals` decimals, exactly.
Shows(text, a, decimals) ==
    text.special = "" /\ text.decimals = decimals /\ text.scaled = a * Pow10(decimals)

\* The text shows k*a/b rounded to two decimals (b > 0).
ShowsRatio(text, a, b, k) ==
    LET diff == text.scaled * b - 100 * k * a
    IN  /\ text.special = "" /\ text.decimals = 2
        /\ 2 * (IF diff < 0 THEN -diff ELSE diff) <= b

\* The float r is k*a/b, with the IEEE value for b = 0.
RatioIs(r, a, b, k) ==
    IF b = 0 THEN r.den = 0 /\ (r.num = 0 <=> a = 0)
    ELSE r.den > 0 /\ r.num * b = k * a * r.den

KeysOf(t, key) == [g \in 1..Len(t.rows) |-> t.rows[g][key]]

Ascending(keys, rank) == \A i, j \in 1..Len(keys) : i < j => rank[keys[i]] < rank[keys[j]]

-----------------------------------------------------------------------------
(* Claims                                                                  *)

\* C1: whenever calculate_kpis returns, each of the five totals it shows is
\* the arithmetic sum of that column over all rows of the sheet, every row
\* counted exactly once.
C1_TotalsAreColumnSums ==
    "kpis" \in rendered =>
        /\ Shows(Kpi("Total Impressions"), Total("Impressions"), 0)
        /\ Shows(Kpi("Total Clicks"), Total("Clicks"), 0)
        /\ Shows(Kpi("Total Conversions"), Total("Conversions"), 0)
        /\ Shows(Kpi("Total Spend"), Total("Total_Spend"), 2)
        /\ Shows(Kpi("Total Revenue"), Total("Revenue_Generated"), 2)

\* Two equal rows: a sum over distinct values would count them once.
C1_Witness ==
    /\ "kpis" \in rendered
    /\ Len(file.rows) = 2
    /\ file.rows[1].Impressions = 4 /\ file.rows[2].Impressions = 4
    /\ Kpi("Total Impressions").scaled = 8

NonZeroDenominators ==
    /\ Total("Impressions") > 0 /\ Total("Clicks") > 0
    /\ Total("Conversions") > 0 /\ Total("Total_Spend") > 0

\* C2: with non-zero denominators each ratio shown is the ratio of the
\* whole-sheet totals (to the two decimals printed): CTR = clicks /
\* impressions * 100, conversion rate = conversions / clicks * 100, CPC =
\* spend / clicks, CPA = spend / conversions, ROAS = revenue / spend.
C2_RatiosOfTotals ==
    ("kpis" \in rendered /\ NonZeroDenominators) =>
        /\ ShowsRatio(Kpi("CTR"), Total("Clicks"), Total("Impressions"), 100)
        /\ ShowsRatio(Kpi("Conversion Rate"), Total("Conversions"), Total("Clicks"), 100)
        /\ ShowsRatio(Kpi("CPC"), Total("Total_Spend"), Total("Clicks"), 1)
        /\ ShowsRatio(Kpi("CPA"), Total("Total_Spend"), Total("Conversions"), 1)
        /\ ShowsRatio(Kpi("ROAS"), Total("Revenue_Generated"), Total("Total_Spend"), 1)
        /\ Kpi("CTR").suffix = "%" /\ Kpi("Conversion Rate").suffix = "%"
        /\ Kpi("CPC").prefix = "$" /\ Kpi("CPA").prefix = "$" /\ Kpi("ROAS").suffix = "x"

\* Rows of CTR 50% and 12.5%: the ratio of the sums is 25%, their mean 31.25%.
C2_Witness ==
    /\ "kpis" \in rendered
    /\ Len(file.rows) = 2
    /\ file.rows[1].Impressions = 4 /\ file.rows[2].Impressions = 8
    /\ Kpi("CTR").scaled = 2500

\* C3: the sums of the channel groups add up, measure by measure, to the
\* global totals calculate_kpis shows in the same run.
C3_ChannelSumsPartitionTotals ==
    ({"kpis", "channel"} \subseteq rendered) =>
        /\ Shows(Kpi("Total Impressions"),
                 SumOver(channel_metrics.rows, "Impressions", Rows(channel_metrics)), 0)
        /\ Shows(Kpi("Total Clicks"),
                 SumOver(channel_metrics.rows, "Clicks", Rows(channel_metrics)), 0)
        /\ Shows(Kpi("Total Conversions"),
                 SumOver(channel_metrics.rows, "Conversions", Rows(channel_metrics)), 0)
        /\ Shows(Kpi("Total Spend"),
                 SumOver(channel_metrics.rows, "Total_Spend", Rows(channel_metrics)), 2)
        /\ Shows(Kpi("Total Revenue"),
                 SumOver(channel_metrics.rows, "Revenue_Generated", Rows(channel_metrics)), 2)

\* One channel holding two rows with clicks.
C3_Witness ==
    /\ {"kpis", "channel"} \subseteq rendered
    /\ Len(file.rows) = 2
    /\ Len(channel_metrics.rows) = 1
    /\ file.rows[1].Clicks > 0 /\ file.rows[2].Clicks > 0

\* The table has one row per key value of the sheet, and each row's CTR,
\* conversion rate and ROAS are those of the summed measures of its group.
GroupRatios(t, key) ==
    /\ {"CTR", "Conversion_Rate", "ROAS"} \subseteq t.columns
    /\ {t.rows[g][key] : g \in Rows(t)} = {file.rows[i][key] : i \in Rows(file)}
    /\ Len(t.rows) = Cardinality({file.rows[i][key] : i \in Rows(file)})
    /\ \A g \in Rows(t) :
         LET k == t.rows[g][key]
         IN  /\ RatioIs(t.rows[g].CTR, TotalWhere(key, k, "Clicks"),
                        TotalWhere(key, k, "Impressions"), 100)
             /\ RatioIs(t.rows[g].Conversion_Rate, TotalWhere(key, k, "Conversions"),
                        TotalWhere(key, k, "Clicks"), 100)
             /\ RatioIs(t.rows[g].ROAS, TotalWhere(key, k, "Revenue_Generated"),
                        TotalWhere(key, k, "Total_Spend"), 1)

\* C4, as claimed: both the channel table and the campaign table hold CTR,
\* conversion rate and ROAS per group, derived from the group's summed measures.
C4_Original ==
    ({"campaign", "channel"} \subseteq rendered) =>
        /\ GroupRatios(channel_metrics, "Marketing_Channel")
        /\ GroupRatios(campaign_metrics, "Campaign_Name")

\* C4, amended: the channel table holds CTR, conversion rate and ROAS per
\* channel, derived from the channel's summed measures.  The campaign table
\* is not grouped: it has one row per record, in sheet order, and the only
\* ratio added is that record's own conversion rate (conversions / clicks *
\* 100); it has no CTR and no ROAS column.
C4_ChannelRatiosFromGroupSums ==
    /\ "channel" \in rendered => GroupRatios(channel_metrics, "Marketing_Channel")
    /\ "campaign" \in rendered =>
         /\ campaign_metrics.columns = file.columns \cup {"Conversion_Rate"}
         /\ Len(campaign_metrics.rows) = Len(file.rows)
         /\ \A i \in Rows(file) :
              /\ campaign_metrics.rows[i].Campaign_Name = file.rows[i].Campaign_Name
              /\ RatioIs(campaign_metrics.rows[i].Conversion_Rate,
                         file.rows[i].Conversions, file.rows[i].Clicks, 100)

\* Two channels, and two records of one campaign whose conversion rates differ.
C4_Witness ==
    /\ {"campaign", "channel"} \subseteq rendered
    /\ Len(channel_metrics.rows) = 2
    /\ Len(campaign_metrics.rows) = 2
    /\ campaign_metrics.rows[1].Campaign_Name = campaign_metrics.rows[2].Campaign_Name
    /\ campaign_metrics.rows[1].Conversion_Rate # campaign_metrics.rows[2].Conversion_Rate
    /\ channel_metrics.rows[1].ROAS = TrueDiv(3, 1)

CategoricalTables ==
    <<[t |-> channel_metrics, key |-> "Marketing_Channel"],
      [t |-> age_metrics, key |-> "Age_Group"],
      [t |-> gender_metrics, key |-> "Gender"],
      [t |-> location_metrics, key |-> "Location"]>>

CategoricalDone == {"channel", "age", "gender", "location"} \subseteq rendered

\* C5, as claimed: the groups of each categorical table come in the order in
\* which their key values first appear in the sheet.
C5_Original ==
    CategoricalDone =>
        \A n \in 1..Len(CategoricalTables) :
            LET c == CategoricalTables[n]
            IN  KeysOf(c.t, c.key) = FirstSeen(file.rows, c.key, Len(file.rows))

\* C5, amended: the groups of each categorical table (channel, age group,
\* gender, location) come in ascending sorted order of the key value, one
\* group per distinct key value of the sheet, whatever the order of first
\* appearance.
C5_GroupsInSortedKeyOrder ==
    CategoricalDone =>
        \A n \in 1..Len(CategoricalTables) :
            LET c == CategoricalTables[n]
                keys == KeysOf(c.t, c.key)
            IN  /\ Ascending(keys, StrRank)
                /\ {keys[g] : g \in 1..Len(keys)} = {file.rows[i][c.key] : i \in Rows(file)}

\* "Social" appears first in the sheet and comes second in the table.
C5_Witness ==
    /\ CategoricalDone
    /\ Len(file.rows) = 2
    /\ file.rows[1].Marketing_Channel = "Social"
    /\ KeysOf(channel_metrics, "Marketing_Channel") = <<"Email", "Social">>

YearMonth(cell) == [y |-> cell.y, m |-> cell.m]

MonthsOfSheet == {YearMonth(file.rows[i].Start_Date) : i \in Rows(file)}

TimeMeasures == {"Impressions", "Clicks", "Conversions", "Revenue_Generated"}

\* C6: the month table has exactly one bucket per distinct (year, month) of
\* the start dates, whatever the day; each bucket holds the sums of the
\* measures of the records of that month; the buckets come in ascending
\* chronological order whatever the row order.
C6_MonthBuckets ==
    "time" \in rendered =>
        /\ time_metrics.columns = {"Month"} \cup TimeMeasures
        /\ Len(time_metrics.rows) = Cardinality(MonthsOfSheet)
        /\ \A ym \in MonthsOfSheet :
             \E g \in Rows(time_metrics) :
                /\ CivilFromDays(time_metrics.rows[g].Month) = [y |-> ym.y, m |-> ym.m, d |-> 1]
                /\ \A c \in TimeMeasures :
                     time_metrics.rows[g][c] =
                        SumOver(file.rows, c,
                                {i \in Rows(file) : YearMonth(file.rows[i].Start_Date) = ym})
        /\ \A g, h \in Rows(time_metrics) :
             g < h =>
                LET a == CivilFromDays(time_metrics.rows[g].Month)
                    b == CivilFromDays(time_metrics.rows[h].Month)
                IN  a.y < b.y \/ (a.y = b.y /\ a.m < b.m)

\* February 2024 precedes December 2023 in the sheet and follows it in the table.
C6_Witness ==
    /\ "time" \in rendered
    /\ Len(file.rows) = 2
    /\ YearMonth(file.rows[1].Start_Date) = [y |-> 2024, m |-> 2]
    /\ YearMonth(file.rows[2].Start_Date) = [y |-> 2023, m |-> 12]
    /\ Len(time_metrics.rows) = 2
    /\ CivilFromDays(time_metrics.rows[1].Month) = [y |-> 2023, m |-> 12, d |-> 1]

\* calculate_kpis has been called in the current run on a loaded sheet that
\* holds all twelve columns.
KpisCalled ==
    /\ store # <<>>
    /\ file.columns = Columns
    /\ pc \notin {"start", "kpis"}

Undefined(text) == text.special \in {"inf", "nan"}

\* C7, as claimed: on every sheet with a zero denominator total, the empty
\* sheet included, calculate_kpis returns a KPI set whose affected ratios are
\* infinite or undefined; it never ends in an exception.
C7_ZeroDenominatorsNeverRaise ==
    (KpisCalled /\ ~NonZeroDenominators) =>
        /\ "kpis" \in rendered
        /\ error # "ZeroDivisionError"
        /\ Total("Impressions") = 0 => Undefined(Kpi("CTR"))
        /\ Total("Clicks") = 0 => Undefined(Kpi("Conversion Rate")) /\ Undefined(Kpi("CPC"))
        /\ Total("Conversions") = 0 => Undefined(Kpi("CPA"))
        /\ Total("Total_Spend") = 0 => Undefined(Kpi("ROAS"))

\* What the outputs of a finished step are never allowed to do: change.
Kept(x, y, blank) == x # blank => y = x

\* C8: every aggregation is idempotent and nothing mutates the loaded
\* dataset: a result, once produced, is reproduced unchanged by every later
\* run, the stored dataset never changes, and main's df has the stored
\* dataset's rows, columns and values at every step of every run.
C8_IdempotentNoMutation ==
    [][/\ Kept(kpis, kpis', <<>>)
       /\ Kept(campaign_metrics, campaign_metrics', NoFrame)
       /\ Kept(channel_metrics, channel_metrics', NoFrame)
       /\ Kept(age_metrics, age_metrics', NoFrame)
       /\ Kept(gender_metrics, gender_metrics', NoFrame)
       /\ Kept(location_metrics, location_metrics', NoFrame)
       /\ Kept(time_metrics, time_metrics', NoFrame)
       /\ Kept(store, store', <<>>)
       /\ store' # <<>> => df' = store'[1] /\ df' = load_data(file).df]_vars

\* A second run has gone through every aggregation again.
C8_Witness ==
    /\ runs = 2
    /\ pc = "done"
    /\ Len(file.rows) = 2
    /\ "Conversion_Rate" \in campaign_metrics.columns
    /\ "Conversion_Rate" \notin df.columns

C10_MissingColumnFailsAtLoad ==
    (file.columns # Columns /\ Len(file.rows) > 0 /\ pc = "failed") =>
        (store = <<>> /\ rendered = {})

====
